---- MODULE Spec2Model ----
(***************************************************************************)
(* Model of the WLMDS loader (src/etl/wlmds_loader.py): sheet selection,   *)
(* header resolution and row normalisation, the upsert into wait_metrics,  *)
(* the life cycle of one run of main(), and two runs side by side.         *)
(*                                                                         *)
(* Text is modelled as a sequence of one-character strings, so that        *)
(* trimming, lower-casing, searching and splitting are computed.           *)
(***************************************************************************)
EXTENDS Integers, Sequences, FiniteSets, TLC

VARIABLES
    sel,          \* sheet selection alone: [names, explicit, done, out]
    nrm,          \* normalisation alone: [df, done, out]
    pc,           \* stage of the current run of main()
    reason,       \* why the run failed ("" while it has not)
    tmp_path,     \* main's tmp_path, 0 before download_to_temp returns
    created,      \* the temporary file the run created, 0 if none
    files,        \* names of the temporary files that exist
    sheet_name,   \* sheet chosen by choose_provider_sheet, until it is parsed
    records,      \* output of parse_wlmds_excel in the current run
    exists,       \* whether table wait_metrics exists (committed)
    table,        \* committed rows of wait_metrics: what any connection sees
    conn,         \* the run's connection: [open, rows, stmt, i, committed]:
                  \* rows as its transaction sees them, the identities its
                  \* current statement has written, the next record to send
    start,        \* storage as it was when the run began: [exists, table]
    prev,         \* the run before: [pc, reason, records]
    procs         \* runs of main() side by side: for each run its
                  \* [pc, reason, tmp_path, records, conn]

vars == <<sel, nrm, pc, reason, tmp_path, created, files,
          sheet_name, records, exists, table, conn, start, prev, procs>>

-----------------------------------------------------------------------------
(* Text *)

\* str.lower() / re.IGNORECASE on the ASCII letters
LowerMap ==
    [A |-> "a", B |-> "b", C |-> "c", D |-> "d", E |-> "e", F |-> "f",
     G |-> "g", H |-> "h", I |-> "i", J |-> "j", K |-> "k", L |-> "l",
     M |-> "m", N |-> "n", O |-> "o", P |-> "p", Q |-> "q", R |-> "r",
     S |-> "s", T |-> "t", U |-> "u", V |-> "v", W |-> "w", X |-> "x",
     Y |-> "y", Z |-> "z"]

LowerChar(c) == IF c \in DOMAIN LowerMap THEN LowerMap[c] ELSE c

Lower(s) == [i \in 1..Len(s) |-> LowerChar(s[i])]

IsSpace(c) == c = " "

RECURSIVE LStrip(_)
LStrip(s) == IF s # <<>> /\ IsSpace(Head(s)) THEN LStrip(Tail(s)) ELSE s

RECURSIVE RStrip(_)
RStrip(s) ==
    IF s # <<>> /\ IsSpace(s[Len(s)]) THEN RStrip(SubSeq(s, 1, Len(s) - 1)) ELSE s

\* str.strip()
Strip(s) == RStrip(LStrip(s))

\* whether pat occurs in s at offset i (1-based)
MatchAt(pat, s, i) ==
    /\ i + Len(pat) - 1 <= Len(s)
    /\ \A j \in 1..Len(pat) : s[i + j - 1] = pat[j]

\* re.search(pat, s, re.IGNORECASE) for a literal lower-case pattern
RECURSIVE SearchFrom(_, _, _)
SearchFrom(pat, s, i) ==
    IF i + Len(pat) - 1 > Len(s) THEN FALSE
    ELSE IF MatchAt(pat, Lower(s), i) THEN TRUE
    ELSE SearchFrom(pat, s, i + 1)

\* the search without re.IGNORECASE
ReSearchCaseSensitive(pat, s) == \E i \in 1..Len(s) : MatchAt(pat, s, i)

ReSearchIgnoreCase(pat, s) == SearchFrom(pat, s, 1)

-----------------------------------------------------------------------------
(* Sheet selection *)

ProviderPattern == <<"p","r","o","v","i","d","e","r">>

NoneStr == [some |-> FALSE, s |-> <<>>]
SomeStr(s) == [some |-> TRUE, s |-> s]

\* Python truth of an Optional[str]: None and "" are false
Truthy(o) == o.some /\ o.s # <<>>

SheetOk(name) ==
    [ok |-> TRUE, name |-> name, kind |-> "", explicit |-> <<>>, available |-> <<>>]

SheetNotFound(explicit, names) ==
    [ok |-> FALSE, name |-> <<>>, kind |-> "ValueError",
     explicit |-> explicit, available |-> names]

SheetIndexError ==
    [ok |-> FALSE, name |-> <<>>, kind |-> "IndexError",
     explicit |-> <<>>, available |-> <<>>]

\* the for loop of choose_provider_sheet followed by the fallback
RECURSIVE FirstProviderSheet(_, _)
FirstProviderSheet(names, i) ==
    IF i > Len(names)
    THEN IF names = <<>> THEN SheetIndexError ELSE SheetOk(names[1])
    ELSE IF ReSearchIgnoreCase(ProviderPattern, names[i]) THEN SheetOk(names[i])
    ELSE FirstProviderSheet(names, i + 1)

InSeq(x, s) == \E i \in 1..Len(s) : s[i] = x

choose_provider_sheet(names, explicit) ==
    IF Truthy(explicit)
    THEN IF InSeq(explicit.s, names)
         THEN SheetOk(explicit.s)
         ELSE SheetNotFound(explicit.s, names)
    ELSE FirstProviderSheet(names, 1)

-----------------------------------------------------------------------------
(* Cells of a worksheet and their conversions *)

\* A cell: t = "nan" (empty cell, read as NaN), "str" (text s), "int" (whole
\* number n) or "dt" (date-time: day number n, time of day tod).
NaNCell == [t |-> "nan", s |-> <<>>, n |-> 0, tod |-> 0]
StrCell(s) == [t |-> "str", s |-> s, n |-> 0, tod |-> 0]
IntCell(n) == [t |-> "int", s |-> <<>>, n |-> n, tod |-> 0]
DtCell(day, tod) == [t |-> "dt", s |-> <<>>, n |-> day, tod |-> tod]

DigitChars == <<"0","1","2","3","4","5","6","7","8","9">>

IsDigitChar(c) == \E d \in 1..10 : DigitChars[d] = c

DigitValue(c) == (CHOOSE d \in 1..10 : DigitChars[d] = c) - 1

\* str(n) of a non-negative int
RECURSIVE IntToStr(_)
IntToStr(n) ==
    IF n < 10 THEN <<DigitChars[n + 1]>>
    ELSE IntToStr(n \div 10) \o <<DigitChars[(n % 10) + 1]>>

\* str.isdigit()
IsDigit(s) == s # <<>> /\ \A i \in 1..Len(s) : IsDigitChar(s[i])

RECURSIVE DigitsToInt(_)
DigitsToInt(s) ==
    IF s = <<>> THEN 0
    ELSE 10 * DigitsToInt(SubSeq(s, 1, Len(s) - 1)) + DigitValue(s[Len(s)])

\* a float: NaN, or the (whole) number v
NaN == [nan |-> TRUE, v |-> 0]
Num(v) == [nan |-> FALSE, v |-> v]

\* texts pandas reads as a missing value (a part of its default na_values)
NaStrings ==
    { <<>>, <<"n","/","a">>, <<"N","/","A">>, <<"N","A">>, <<"n","a","n">>,
      <<"N","a","N">>, <<"N","U","L","L">>, <<"n","u","l","l">> }

ReadCell(c) == IF c.t = "str" /\ c.s \in NaStrings THEN NaNCell ELSE c

\* pd.read_excel: the grid with its missing-value texts turned into NaN
read_excel(sheet) ==
    [columns |-> sheet.columns,
     rows |-> [r \in 1..Len(sheet.rows) |->
                 [j \in 1..Len(sheet.rows[r]) |-> ReadCell(sheet.rows[r][j])]]]

\* A column of whole numbers with at least one missing value is float64.
ColIsFloat(df, j) ==
    /\ \A r \in 1..Len(df.rows) : df.rows[r][j].t \in {"int", "nan"}
    /\ \E r \in 1..Len(df.rows) : df.rows[r][j].t = "nan"

\* str(row[col])
StrOfCell(c, isFloat) ==
    CASE c.t = "nan" -> <<"n","a","n">>
      [] c.t = "str" -> c.s
      [] c.t = "int" -> IF isFloat THEN IntToStr(c.n) \o <<".","0">> ELSE IntToStr(c.n)
      [] OTHER -> <<"d","t">> \o IntToStr(c.n) \o <<":">> \o IntToStr(c.tod)

\* a variant that gives 0 where float() raises
to_floatOrZero(c) ==
    CASE c.t = "int" -> Num(c.n)
      [] c.t = "str" -> IF IsDigit(Strip(c.s)) THEN Num(DigitsToInt(Strip(c.s))) ELSE Num(0)
      [] OTHER -> Num(0)

\* _to_float: float(v), NaN when float() raises
to_float(c) ==
    CASE c.t = "int" -> Num(c.n)
      [] c.t = "str" -> IF IsDigit(Strip(c.s)) THEN Num(DigitsToInt(Strip(c.s))) ELSE NaN
      [] OTHER -> NaN

\* pd.to_datetime(..., errors="coerce") of one cell: NaT unless a date-time
NaT == [nat |-> TRUE, day |-> 0, tod |-> 0]
Datetime(day, tod) == [nat |-> FALSE, day |-> day, tod |-> tod]

to_datetime(c) == IF c.t = "dt" THEN Datetime(c.n, c.tod) ELSE NaT

-----------------------------------------------------------------------------
(* Header resolution *)

ods_aliases ==
    << <<"o","r","g","a","n","i","s","a","t","i","o","n"," ","c","o","d","e">>,
       <<"o","r","g","a","n","i","s","a","t","i","o","n"," ","c","o","d","e"," ","(","o","d","s",")">>,
       <<"p","r","o","v","i","d","e","r"," ","c","o","d","e">>,
       <<"o","r","g"," ","c","o","d","e">> >>

tfn_aliases ==
    << <<"t","r","e","a","t","m","e","n","t"," ","f","u","n","c","t","i","o","n"," ","c","o","d","e">>,
       <<"t","r","e","a","t","m","e","n","t"," ","f","u","n","c","t","i","o","n">>,
       <<"t","f","c"," ","c","o","d","e">>,
       <<"t","f","c">> >>

period_aliases ==
    << <<"p","e","r","i","o","d"," ","e","n","d","i","n","g">>,
       <<"p","e","r","i","o","d"," ","e","n","d">>,
       <<"p","e","r","i","o","d">>,
       <<"m","o","n","t","h">>,
       <<"r","e","p","o","r","t","i","n","g"," ","p","e","r","i","o","d">> >>

median_aliases ==
    << <<"m","e","d","i","a","n"," ","w","a","i","t">>,
       <<"m","e","d","i","a","n"," ","w","a","i","t"," ","(","w","e","e","k","s",")">>,
       <<"m","e","d","i","a","n"," ","(","w","e","e","k","s",")">>,
       <<"m","e","d","i","a","n"," ","w","e","e","k","s">> >>

gt18_aliases ==
    << <<"%"," ","w","a","i","t","i","n","g"," ",">"," ","1","8"," ","w","e","e","k","s">>,
       <<"%"," ","w","a","i","t","i","n","g"," ","o","v","e","r"," ","1","8"," ","w","e","e","k","s">>,
       <<"%"," ",">"," ","1","8"," ","w","e","e","k","s">>,
       <<"o","v","e","r"," ","1","8"," ","w","e","e","k","s"," ","(","%",")">> >>

gt52_aliases ==
    << <<"%"," ","w","a","i","t","i","n","g"," ",">"," ","5","2"," ","w","e","e","k","s">>,
       <<"%"," ","w","a","i","t","i","n","g"," ","o","v","e","r"," ","5","2"," ","w","e","e","k","s">>,
       <<"%"," ",">"," ","5","2"," ","w","e","e","k","s">>,
       <<"o","v","e","r"," ","5","2"," ","w","e","e","k","s"," ","(","%",")">> >>

\* the alias lists in the order parse_wlmds_excel resolves them
FieldAliases ==
    <<ods_aliases, tfn_aliases, period_aliases, median_aliases, gt18_aliases, gt52_aliases>>

\* _normalise_columns: str(c).strip().lower() of every header
normalise_columns(df) ==
    [df EXCEPT !.columns = [j \in 1..Len(df.columns) |-> Lower(Strip(df.columns[j]))]]

Picked(name) == [ok |-> TRUE, col |-> name, tried |-> <<>>, actual |-> <<>>]

\* the error without the aliases that were tried
NoneFoundNoAliases(aliases, columns) ==
    [ok |-> FALSE, col |-> <<>>, tried |-> <<>>, actual |-> columns]

\* ValueError("None of the expected columns found. Tried: {aliases}. Actual: {columns}")
NoneFound(aliases, columns) ==
    [ok |-> FALSE, col |-> <<>>, tried |-> aliases, actual |-> columns]

RECURSIVE PickFrom(_, _, _)
PickFrom(columns, aliases, i) ==
    IF i > Len(aliases) THEN NoneFound(aliases, columns)
    ELSE IF InSeq(aliases[i], columns) THEN Picked(aliases[i])
    ELSE PickFrom(columns, aliases, i + 1)

pick_first_present(df, aliases) == PickFrom(df.columns, aliases, 1)

\* lines 162-167: the six resolutions in order; the first failure is raised
RECURSIVE ResolveFrom(_, _, _)
ResolveFrom(df, f, cols) ==
    IF f > Len(FieldAliases) THEN [ok |-> TRUE, cols |-> cols, err |-> Picked(<<>>)]
    ELSE LET p == pick_first_present(df, FieldAliases[f])
         IN  IF p.ok THEN ResolveFrom(df, f + 1, Append(cols, p.col))
             ELSE [ok |-> FALSE, cols |-> cols, err |-> p]

ResolveHeaders(df) == ResolveFrom(df, 1, <<>>)

-----------------------------------------------------------------------------
(* Row normalisation *)

ColIndex(df, name) == CHOOSE j \in 1..Len(df.columns) : df.columns[j] = name

\* s.split("-")[0]
RECURSIVE BeforeDash(_)
BeforeDash(s) ==
    IF s = <<>> \/ Head(s) = "-" THEN <<>> ELSE <<Head(s)>> \o BeforeDash(Tail(s))

\* a variant that keeps the text before the hyphen as it stands
TreatmentCodeUnstripped(raw) ==
    LET code == Strip(raw)
    IN  IF InSeq("-", code) /\ IsDigit(Strip(BeforeDash(code)))
        THEN BeforeDash(code)
        ELSE code

\* lines 176-180: "101 - General Surgery" gives "101"
TreatmentCode(raw) ==
    LET code == Strip(raw)
    IN  IF InSeq("-", code) /\ IsDigit(Strip(BeforeDash(code)))
        THEN Strip(BeforeDash(code))
        ELSE code

\* line 194: the row is skipped unless both codes are non-empty
SkipRow(ods_code, treatment_code) == ods_code = <<>> \/ treatment_code = <<>>

\* the body of the loop over df.iterrows() for row r, with the columns found
RowRecord(df, cols, r) ==
    LET cell(f) == df.rows[r][ColIndex(df, cols[f])]
        isFloat(f) == ColIsFloat(df, ColIndex(df, cols[f]))
    IN  [ods_code |-> Strip(StrOfCell(cell(1), isFloat(1))),
         treatment_code |-> TreatmentCode(StrOfCell(cell(2), isFloat(2))),
         period_date |-> to_datetime(cell(3)),
         median_weeks |-> to_float(cell(4)),
         pct_over_18w |-> to_float(cell(5)),
         pct_over_52w |-> to_float(cell(6))]

\* lines 170-171: rows whose period does not parse are dropped
DropNa(df, cols, r) == to_datetime(df.rows[r][ColIndex(df, cols[3])]).nat

\* lines 173-197; src lists, for each record, the sheet row it was made from
RECURSIVE RowsFrom(_, _, _, _)
RowsFrom(df, cols, r, acc) ==
    IF r > Len(df.rows) THEN acc
    ELSE IF DropNa(df, cols, r) THEN RowsFrom(df, cols, r + 1, acc)
    ELSE LET rec == RowRecord(df, cols, r)
         IN  IF SkipRow(rec.ods_code, rec.treatment_code)
             THEN RowsFrom(df, cols, r + 1, acc)
             ELSE RowsFrom(df, cols, r + 1,
                           [records |-> Append(acc.records, rec),
                            src |-> Append(acc.src, r)])

parse_wlmds_excel(sheet) ==
    LET df == normalise_columns(read_excel(sheet))
        h == ResolveHeaders(df)
    IN  IF ~h.ok
        THEN [ok |-> FALSE, records |-> <<>>, src |-> <<>>, err |-> h.err]
        ELSE LET out == RowsFrom(df, h.cols, 1, [records |-> <<>>, src |-> <<>>])
             IN  [ok |-> TRUE, records |-> out.records, src |-> out.src,
                  err |-> h.err]

-----------------------------------------------------------------------------
(* Storage: table wait_metrics and one connection's transaction *)

\* records per statement of execute_values (psycopg2's default page_size)
PageSize == 100

\* a timestamp stored into the DATE column period_date keeps its day
DateOf(dt) == dt.day

\* the row a record is inserted as
RowOf(rec) ==
    [ods_code |-> rec.ods_code, treatment_code |-> rec.treatment_code,
     period_date |-> DateOf(rec.period_date), median_weeks |-> rec.median_weeks,
     pct_over_18w |-> rec.pct_over_18w, pct_over_52w |-> rec.pct_over_52w]

\* PRIMARY KEY / ON CONFLICT (ods_code, treatment_code, period_date)
ConflictKey(row) == <<row.ods_code, row.treatment_code, row.period_date>>

\* an update that takes one column from the stored row instead of EXCLUDED
DoUpdateStale(old, new) ==
    [old EXCEPT !.median_weeks = new.median_weeks,
                !.pct_over_18w = old.median_weeks,
                !.pct_over_52w = new.pct_over_52w]

\* DO UPDATE SET median_weeks = EXCLUDED.median_weeks, ...
DoUpdate(old, new) ==
    [old EXCEPT !.median_weeks = new.median_weeks,
                !.pct_over_18w = new.pct_over_18w,
                !.pct_over_52w = new.pct_over_52w]

\* ON CONFLICT ... DO NOTHING
UpsertRowDoNothing(rows, new) ==
    IF \E old \in rows : ConflictKey(old) = ConflictKey(new) THEN rows ELSE rows \cup {new}

\* a load that replaces the content of the table
UpsertRowReplaceAll(rows, new) == {new}

\* INSERT ... ON CONFLICT ... DO UPDATE of one row
UpsertRow(rows, new) ==
    IF \E old \in rows : ConflictKey(old) = ConflictKey(new)
    THEN {IF ConflictKey(old) = ConflictKey(new) THEN DoUpdate(old, new) ELSE old :
            old \in rows}
    ELSE rows \cup {new}

\* an early return that also takes a single record, and one that is never taken
SkipUpsertShort(recs) == Len(recs) <= 1

SkipUpsertNever(recs) == FALSE

\* line 228: nothing to upsert
SkipUpsert(recs) == recs = <<>>

\* a connection in autocommit mode
UncommittedVisible(committed, written) == written

\* what other connections see while the transaction is open: the writes of
\* cur.execute stay private until conn.commit() (line 246)
Uncommitted(committed, written) == committed

\* a close that commits what the transaction has written
ClosedCommits(committed, written) == written

\* conn.close() in the finally block without a commit discards the writes
ClosedUncommitted(committed, written) == committed

NoConn == [open |-> FALSE, rows |-> {}, stmt |-> {}, i |-> 0, committed |-> FALSE]

\* the first record of a page starts a new statement
StmtKeys(c) == IF (c.i - 1) % PageSize = 0 THEN {} ELSE c.stmt

-----------------------------------------------------------------------------
(* Inputs *)

MaxSheets == 3    \* worksheets in a workbook (sheet selection)
MaxRows == 2      \* data rows in a worksheet
MaxLeaked == 1    \* temporary files left behind before the runs stop

\* all sequences over S of length at most n
SeqsUpTo(S, n) == UNION {[1..k -> S] : k \in 0..n}

Distinct(q) == \A i, j \in 1..Len(q) : i # j => q[i] # q[j]

NameSummary == <<"S","u","m","m","a","r","y">>
NameProviderBreakdown ==
    <<"P","r","o","v","i","d","e","r"," ","b","r","e","a","k","d","o","w","n">>
NameNotes == <<"N","o","t","e","s">>
NameProvidersUpper == <<"A","L","L"," ","P","R","O","V","I","D","E","R","S">>
NameProvisional == <<"P","r","o","v","i","s","i","o","n","a","l">>
NameMissing == <<"M","i","s","s","i","n","g">>

SheetNamePool ==
    {NameSummary, NameProviderBreakdown, NameNotes, NameProvidersUpper, NameProvisional}

\* a workbook has at least one worksheet, and no two of the same name
SheetLists == {q \in SeqsUpTo(SheetNamePool, MaxSheets) : q # <<>> /\ Distinct(q)}

Explicits ==
    {NoneStr, SomeStr(<<>>), SomeStr(NameNotes), SomeStr(NameProvisional),
     SomeStr(NameMissing)}

\* workbooks and WLMDS_SHEET values met by the runs of main()
RunSheetLists ==
    {<<NameSummary, NameProviderBreakdown, NameNotes>>, <<NameSummary, NameNotes>>}

RunExplicits == {NoneStr, SomeStr(NameProviderBreakdown)}

\* header spellings: two accepted ones and one that is no alias, per field
HeaderChoices ==
    << { <<" ","O","r","g","a","n","i","s","a","t","i","o","n"," ","C","o","d","e"," ">>,
         <<"O","r","g"," ","C","o","d","e">>,
         <<"T","r","u","s","t">> },
       { <<"T","r","e","a","t","m","e","n","t"," ","F","u","n","c","t","i","o","n"," ","C","o","d","e">>,
         <<"T","F","C">>,
         <<"S","p","e","c","i","a","l","t","y">> },
       { <<"P","e","r","i","o","d"," ","E","n","d","i","n","g">>,
         <<"M","o","n","t","h">>,
         <<"D","a","t","e">> },
       { <<"M","e","d","i","a","n"," ","W","a","i","t">>,
         <<"M","e","d","i","a","n"," ","W","e","e","k","s">>,
         <<"A","v","e","r","a","g","e">> },
       { <<"%"," ","W","a","i","t","i","n","g"," ",">"," ","1","8"," ","W","e","e","k","s">>,
         <<"O","v","e","r"," ","1","8"," ","W","e","e","k","s"," ","(","%",")">>,
         <<"1","8"," ","w","e","e","k","s">> },
       { <<"%"," ","W","a","i","t","i","n","g"," ",">"," ","5","2"," ","W","e","e","k","s">>,
         <<"O","v","e","r"," ","5","2"," ","W","e","e","k","s"," ","(","%",")">>,
         <<"5","2"," ","w","e","e","k","s">> } >>

HeaderRows ==
    {<<h1, h2, h3, h4, h5, h6>> :
        h1 \in HeaderChoices[1], h2 \in HeaderChoices[2], h3 \in HeaderChoices[3],
        h4 \in HeaderChoices[4], h5 \in HeaderChoices[5], h6 \in HeaderChoices[6]}

GoodHeaders ==
    << <<" ","O","r","g","a","n","i","s","a","t","i","o","n"," ","C","o","d","e"," ">>,
       <<"T","F","C">>,
       <<"P","e","r","i","o","d"," ","E","n","d","i","n","g">>,
       <<"M","e","d","i","a","n"," ","W","e","e","k","s">>,
       <<"%"," ","W","a","i","t","i","n","g"," ",">"," ","1","8"," ","W","e","e","k","s">>,
       <<"O","v","e","r"," ","5","2"," ","W","e","e","k","s"," ","(","%",")">> >>

BadHeaders == [GoodHeaders EXCEPT ![4] = <<"A","v","e","r","a","g","e">>]

TextRA1 == <<" ","R","A","1"," ">>
TextRB2 == <<"R","B","2">>
TextBlank == <<" "," ">>
TextGeneralSurgery ==
    <<"1","0","1"," ","-"," ","G","e","n","e","r","a","l"," ","S","u","r","g","e","r","y">>
TextENT == <<"E","N","T">>
TextStar == <<"*">>
TextSurgeryTight == <<"1","0","1","-","S","u","r","g","e","r","y">>

OdsCells == {NaNCell, StrCell(TextBlank), StrCell(TextRA1)}
TfnCells ==
    {NaNCell, StrCell(TextBlank), StrCell(TextGeneralSurgery), StrCell(TextENT), IntCell(101)}

\* every provider cell with every treatment cell, the other cells valid; every
\* provider cell with an unreadable period, median or percentage; and rows of
\* one provider with an empty period, the other percentage unreadable, and a
\* treatment text with no space around its hyphen
SheetRows ==
    {<<o, t, DtCell(1, 0), IntCell(1), IntCell(1), IntCell(1)>> :
        o \in OdsCells, t \in TfnCells}
    \cup {<<o, StrCell(TextGeneralSurgery), StrCell(TextStar), IntCell(1), IntCell(1), IntCell(1)>> :
        o \in OdsCells}
    \cup {<<o, StrCell(TextGeneralSurgery), DtCell(1, 0), StrCell(TextStar), IntCell(1), IntCell(1)>> :
        o \in OdsCells}
    \cup {<<o, StrCell(TextGeneralSurgery), DtCell(1, 0), IntCell(1), StrCell(TextStar), IntCell(1)>> :
        o \in OdsCells}
    \cup {<<StrCell(TextRA1), StrCell(TextENT), NaNCell, IntCell(1), IntCell(1), IntCell(1)>>,
          <<StrCell(TextRA1), StrCell(TextENT), DtCell(1, 0), IntCell(1), IntCell(1), StrCell(TextStar)>>,
          <<StrCell(TextRA1), StrCell(TextSurgeryTight), DtCell(1, 0), IntCell(1), IntCell(1), IntCell(1)>>}

RowA1 == <<StrCell(TextRA1), IntCell(101), DtCell(1, 0), IntCell(1), IntCell(1), IntCell(1)>>
RowA2 ==
    <<StrCell(<<"R","A","1">>), StrCell(TextGeneralSurgery), DtCell(1, 1),
      IntCell(2), IntCell(2), IntCell(2)>>
RowB1 == <<StrCell(TextRB2), StrCell(TextENT), DtCell(1, 0), IntCell(1), StrCell(TextStar), IntCell(1)>>
RowB2 == <<StrCell(TextRB2), StrCell(TextENT), DtCell(1, 0), IntCell(2), IntCell(2), IntCell(2)>>
RowW == <<StrCell(TextBlank), IntCell(101), DtCell(1, 0), IntCell(1), IntCell(1), IntCell(1)>>

\* worksheets normalised alone
ParseSheets ==
    {[columns |-> h, rows |-> <<RowA1>>] : h \in HeaderRows}
    \cup {[columns |-> GoodHeaders, rows |-> rs] : rs \in SeqsUpTo(SheetRows, MaxRows)}

\* worksheets met by the runs of main()
RunSheets ==
    {[columns |-> GoodHeaders, rows |-> rs] : rs \in SeqsUpTo({RowA1, RowA2, RowB1, RowW}, MaxRows)}
    \cup {[columns |-> BadHeaders, rows |-> <<RowA1>>]}

\* worksheets met by the runs that execute side by side: rows of two
\* identities, in either order, with the values 1 or 2; and one identity twice
ConcSheets ==
    {[columns |-> GoodHeaders, rows |-> rs] :
        rs \in {<<>>, <<RowA1>>, <<RowA1, RowB1>>, <<RowB1, RowA1>>,
                <<RowA2, RowB2>>, <<RowB2, RowA2>>, <<RowA1, RowA2>>}}
    \cup {[columns |-> BadHeaders, rows |-> <<RowA1>>]}

-----------------------------------------------------------------------------
(* One run of main(), and the runs that follow it *)

SelIdle == [names |-> <<>>, explicit |-> NoneStr, done |-> FALSE, out |-> SheetOk(<<>>)]

NrmIdle ==
    [sheet |-> [columns |-> <<>>, rows |-> <<>>], done |-> FALSE,
     out |-> [ok |-> TRUE, records |-> <<>>, src |-> <<>>, err |-> Picked(<<>>)]]

\* the runs of main() that execute side by side
Runs == {"first", "second"}

\* a run that has not begun
ProcIdle ==
    [pc |-> "Starting", reason |-> "", tmp_path |-> 0, records |-> <<>>, conn |-> NoConn]

RunInit ==
    /\ procs = [r \in Runs |-> ProcIdle]
    /\ pc = "Resolving"
    /\ reason = ""
    /\ tmp_path = 0
    /\ created = 0
    /\ files = {}
    /\ sheet_name = <<>>
    /\ records = <<>>
    /\ exists = FALSE
    /\ table = {}
    /\ conn = NoConn
    /\ start = [exists |-> FALSE, table |-> {}]
    /\ prev = [pc |-> "None", reason |-> "", records |-> <<>>]

runVars ==
    <<pc, reason, tmp_path, created, files, sheet_name, records, exists, table,
      conn, start, prev, procs>>

\* tempfile.NamedTemporaryFile picks a name no existing file has
NewTemp == CHOOSE n \in 1..(Cardinality(files) + 1) : n \notin files

\* an exception that leaves main() before its try block (lines 256-268)
Abort(why) ==
    /\ pc' = "Failed"
    /\ reason' = why

\* an exception inside main()'s try block: the finally block runs next
Raise(why) ==
    /\ pc' = "Cleanup"
    /\ reason' = why

\* what parse_wlmds_excel returns for the worksheets the runs meet
RunParsed == {parse_wlmds_excel(sheet) : sheet \in RunSheets}

\* lines 256-266
Resolve ==
    /\ pc = "Resolving"
    /\ \/ Abort("ConfigError")       \* DATABASE_URL is not set
       \/ Abort("DiscoveryError")    \* discover_latest_wlmds_url raises
       \/ pc' = "Retrieving" /\ reason' = reason
    /\ UNCHANGED <<sel, nrm, tmp_path, created, files, sheet_name, records,
                   exists, table, conn, start, prev, procs>>

\* line 268, download_to_temp
Retrieve ==
    /\ pc = "Retrieving"
    /\ \/ \* the fetch fails, or the local path does not exist: no file yet
          /\ Abort("RetrievalError")
          /\ UNCHANGED <<tmp_path, created, files>>
       \/ \* tmp.write / shutil.copyfile raises inside the with block
          /\ Abort("WriteError")
          /\ created' = NewTemp
          /\ files' = files \cup {NewTemp}
          /\ UNCHANGED tmp_path
       \/ /\ pc' = "Selecting"
          /\ reason' = reason
          /\ created' = NewTemp
          /\ tmp_path' = NewTemp
          /\ files' = files \cup {NewTemp}
    /\ UNCHANGED <<sel, nrm, sheet_name, records, exists, table, conn, start, prev, procs>>

\* lines 270-271
Select ==
    /\ pc = "Selecting"
    /\ \/ /\ Raise("WorkbookError")   \* pd.ExcelFile cannot open the file
          /\ UNCHANGED sheet_name
       \/ \E names \in RunSheetLists, explicit \in RunExplicits :
             LET r == choose_provider_sheet(names, explicit)
             IN  IF r.ok
                 THEN /\ sheet_name' = r.name
                      /\ pc' = "Normalizing"
                      /\ reason' = reason
                 ELSE /\ Raise("SheetNotFoundError")
                      /\ UNCHANGED sheet_name
    /\ UNCHANGED <<sel, nrm, tmp_path, created, files, records, exists, table,
                   conn, start, prev, procs>>

\* line 274
Normalize ==
    /\ pc = "Normalizing"
    /\ \E out \in RunParsed :
          IF out.ok
          THEN /\ records' = out.records
               /\ pc' = "Reconciling"
               /\ reason' = reason
          ELSE /\ Raise("SchemaError")
               /\ UNCHANGED records
    /\ sheet_name' = <<>>
    /\ UNCHANGED <<sel, nrm, tmp_path, created, files, exists, table, conn,
                   start, prev, procs>>

\* lines 226-232: the early return, or psycopg2.connect
Reconcile ==
    /\ pc = "Reconciling"
    /\ \/ /\ SkipUpsert(records)
          /\ pc' = "Cleanup"
          /\ UNCHANGED <<reason, conn>>
       \/ /\ ~SkipUpsert(records)
          /\ Raise("StorageError")
          /\ UNCHANGED conn
       \/ /\ ~SkipUpsert(records)
          /\ conn' = [NoConn EXCEPT !.open = TRUE, !.rows = table, !.i = 1]
          /\ pc' = "EnsureTable"
          /\ reason' = reason
    /\ UNCHANGED <<sel, nrm, tmp_path, created, files, sheet_name, records,
                   exists, table, start, prev, procs>>

\* line 234, ensure_table: CREATE TABLE IF NOT EXISTS, then commit
EnsureTable ==
    /\ pc = "EnsureTable"
    /\ \/ /\ Raise("StorageError")
          /\ conn' = NoConn
          /\ UNCHANGED exists
       \/ /\ exists' = TRUE
          /\ conn' = [conn EXCEPT !.rows = table]
          /\ pc' = "Execute"
          /\ reason' = reason
    /\ UNCHANGED <<sel, nrm, tmp_path, created, files, sheet_name, records,
                   table, start, prev, procs>>

\* line 245, execute_values: one record of the current statement
Execute ==
    /\ pc = "Execute"
    /\ LET new == RowOf(records[conn.i])
           keys == StmtKeys(conn)
       IN  \/ \* the statement fails in the server or on the wire
              /\ Raise("StorageError")
              /\ conn' = NoConn
              /\ table' = ClosedUncommitted(table, conn.rows)
           \/ \* "ON CONFLICT DO UPDATE command cannot affect row a second time"
              /\ ConflictKey(new) \in keys
              /\ Raise("CardinalityViolation")
              /\ conn' = NoConn
              /\ table' = ClosedUncommitted(table, conn.rows)
           \/ /\ ConflictKey(new) \notin keys
              /\ conn' = [conn EXCEPT !.rows = UpsertRow(conn.rows, new),
                                      !.stmt = keys \cup {ConflictKey(new)},
                                      !.i = conn.i + 1]
              /\ table' = Uncommitted(table, UpsertRow(conn.rows, new))
              /\ pc' = IF conn.i = Len(records) THEN "Commit" ELSE "Execute"
              /\ reason' = reason
    /\ UNCHANGED <<sel, nrm, tmp_path, created, files, sheet_name, records,
                   exists, start, prev, procs>>

\* lines 246-249: conn.commit(), then conn.close() in the finally block
Commit ==
    /\ pc = "Commit"
    /\ \/ /\ Raise("StorageError")
          /\ conn' = NoConn
          /\ table' = ClosedUncommitted(table, conn.rows)
       \/ /\ table' = conn.rows
          /\ conn' = [NoConn EXCEPT !.committed = TRUE]
          /\ pc' = "Cleanup"
          /\ reason' = reason
    /\ UNCHANGED <<sel, nrm, tmp_path, created, files, sheet_name, records,
                   exists, start, prev, procs>>

\* lines 276-280: os.remove(tmp_path), then main() returns or re-raises
Cleanup ==
    /\ pc = "Cleanup"
    /\ files' = files \ {tmp_path}
    /\ pc' = IF reason = "" THEN "Done" ELSE "Failed"
    /\ UNCHANGED <<sel, nrm, reason, tmp_path, created, sheet_name, records,
                   exists, table, conn, start, prev, procs>>

\* the job is invoked again (line 284)
StartRun ==
    /\ pc \in {"Done", "Failed"}
    /\ Cardinality(files) < MaxLeaked
    /\ prev' = [pc |-> pc, reason |-> reason, records |-> records]
    /\ start' = [exists |-> exists, table |-> table]
    /\ pc' = "Resolving"
    /\ reason' = ""
    /\ tmp_path' = 0
    /\ created' = 0
    /\ sheet_name' = <<>>
    /\ records' = <<>>
    /\ conn' = NoConn
    /\ UNCHANGED <<sel, nrm, files, exists, table, procs>>

Init == RunInit /\ sel = SelIdle /\ nrm = NrmIdle

Next ==
    \/ Resolve
    \/ Retrieve
    \/ Select
    \/ Normalize
    \/ Reconcile
    \/ EnsureTable
    \/ Execute
    \/ Commit
    \/ Cleanup
    \/ StartRun

Spec == Init /\ [][Next]_vars

-----------------------------------------------------------------------------
(* Sheet selection alone *)

InitSheet ==
    /\ RunInit
    /\ nrm = NrmIdle
    /\ sel \in {[SelIdle EXCEPT !.names = names, !.explicit = explicit] :
                   names \in SheetLists, explicit \in Explicits}

ChooseSheet ==
    /\ ~sel.done
    /\ sel' = [sel EXCEPT !.done = TRUE,
                          !.out = choose_provider_sheet(sel.names, sel.explicit)]
    /\ UNCHANGED <<nrm, runVars>>

NextSheet == ChooseSheet

SpecSheet == InitSheet /\ [][NextSheet]_vars

-----------------------------------------------------------------------------
(* Normalisation alone *)

InitParse ==
    /\ RunInit
    /\ sel = SelIdle
    /\ nrm \in {[NrmIdle EXCEPT !.sheet = sheet] : sheet \in ParseSheets}

ParseSheet ==
    /\ ~nrm.done
    /\ nrm' = [nrm EXCEPT !.done = TRUE, !.out = parse_wlmds_excel(nrm.sheet)]
    /\ UNCHANGED <<sel, runVars>>

NextParse == ParseSheet

SpecParse == InitParse /\ [][NextParse]_vars

-----------------------------------------------------------------------------
(* Two runs of main() side by side against the same storage *)

\* what parse_wlmds_excel returns for the worksheets these runs meet
ConcParsed == {parse_wlmds_excel(sheet) : sheet \in ConcSheets}

\* the storage the two runs find: no table yet, or a table with one row
ConcStores ==
    {[exists |-> FALSE, table |-> {}]}
    \cup {[exists |-> TRUE, table |-> {RowOf(out.records[1])}] :
            out \in {parse_wlmds_excel([columns |-> GoodHeaders, rows |-> <<RowA2>>])}}

AbortIn(p, why) == [p EXCEPT !.pc = "Failed", !.reason = why]

\* an exception inside the try block; a connection that is open is closed by
\* the finally block of upsert_wait_metrics
RaiseIn(p, why) == [p EXCEPT !.pc = "Cleanup", !.reason = why, !.conn = NoConn]

\* the identities a transaction has written and keeps locked until it ends
HeldKeys(c) == IF c.open THEN {ConflictKey(w) : w \in c.rows} ELSE {}

\* the table with the rows a transaction has written: each replaces the
\* measurements of the stored row of its identity, or is a new row
Publish(committed, written) ==
    {IF \E w \in written : ConflictKey(w) = ConflictKey(old)
     THEN DoUpdate(old, CHOOSE w \in written : ConflictKey(w) = ConflictKey(old))
     ELSE old : old \in committed}
    \cup {w \in written : \A old \in committed : ConflictKey(old) # ConflictKey(w)}

\* the identity of the record the run sends next
NextKey(p) == ConflictKey(RowOf(p.records[p.conn.i]))

\* the row is written by a transaction of another run that has not ended:
\* INSERT ... ON CONFLICT waits for that transaction
LockedByOther(r, key) == \E q \in Runs \ {r} : key \in HeldKeys(procs[q].conn)

\* the run's statement waits for a row lock
Waiting(r) ==
    /\ procs[r].pc = "Execute"
    /\ NextKey(procs[r]) \notin StmtKeys(procs[r].conn)
    /\ LockedByOther(r, NextKey(procs[r]))

concFrame == <<sel, nrm, pc, reason, tmp_path, created, sheet_name, records, conn, start, prev>>

\* lines 256-268: configuration, discovery and download_to_temp
StartOf(r) ==
    /\ procs[r].pc = "Starting"
    /\ \/ /\ \E why \in {"ConfigError", "DiscoveryError", "RetrievalError"} :
                procs' = [procs EXCEPT ![r] = AbortIn(@, why)]
          /\ UNCHANGED files
       \/ /\ procs' = [procs EXCEPT ![r] = AbortIn(@, "WriteError")]
          /\ files' = files \cup {NewTemp}
       \/ /\ procs' = [procs EXCEPT ![r] = [@ EXCEPT !.pc = "Normalizing", !.tmp_path = NewTemp]]
          /\ files' = files \cup {NewTemp}
    /\ UNCHANGED <<exists, table, concFrame>>

\* lines 270-274: the workbook is opened, the sheet chosen and parsed
NormalizeOf(r) ==
    /\ procs[r].pc = "Normalizing"
    /\ \/ procs' = [procs EXCEPT ![r] = RaiseIn(@, "WorkbookError")]
       \/ \E names \in RunSheetLists, explicit \in RunExplicits, out \in ConcParsed :
             procs' = [procs EXCEPT ![r] =
                         IF ~choose_provider_sheet(names, explicit).ok
                         THEN RaiseIn(@, "SheetNotFoundError")
                         ELSE IF ~out.ok
                         THEN RaiseIn(@, "SchemaError")
                         ELSE [@ EXCEPT !.pc = "Reconciling", !.records = out.records]]
    /\ UNCHANGED <<files, exists, table, concFrame>>

\* lines 226-232: the early return, or psycopg2.connect
ReconcileOf(r) ==
    /\ procs[r].pc = "Reconciling"
    /\ \/ /\ SkipUpsert(procs[r].records)
          /\ procs' = [procs EXCEPT ![r] = [@ EXCEPT !.pc = "Cleanup"]]
       \/ /\ ~SkipUpsert(procs[r].records)
          /\ procs' = [procs EXCEPT ![r] = RaiseIn(@, "StorageError")]
       \/ /\ ~SkipUpsert(procs[r].records)
          /\ procs' = [procs EXCEPT ![r] =
                         [@ EXCEPT !.pc = "EnsureTable",
                                   !.conn = [NoConn EXCEPT !.open = TRUE, !.i = 1]]]
    /\ UNCHANGED <<files, exists, table, concFrame>>

\* line 234, ensure_table: CREATE TABLE IF NOT EXISTS, then commit; the
\* statement can fail, as it does when it meets the other run's CREATE
EnsureTableOf(r) ==
    /\ procs[r].pc = "EnsureTable"
    /\ \/ /\ procs' = [procs EXCEPT ![r] = RaiseIn(@, "StorageError")]
          /\ UNCHANGED exists
       \/ /\ procs' = [procs EXCEPT ![r] = [@ EXCEPT !.pc = "Execute"]]
          /\ exists' = TRUE
    /\ UNCHANGED <<files, table, concFrame>>

\* line 245, execute_values: one record of the current statement, sent when
\* no other open transaction has written the row of its identity
ExecuteOf(r) ==
    /\ procs[r].pc = "Execute"
    /\ LET c == procs[r].conn
           new == RowOf(procs[r].records[c.i])
           keys == StmtKeys(c)
           seen == Publish(table, c.rows)
           row == CHOOSE w \in UpsertRow(seen, new) : ConflictKey(w) = ConflictKey(new)
           rows == {w \in c.rows : ConflictKey(w) # ConflictKey(new)} \cup {row}
       IN  \/ \* the statement fails in the server or on the wire
              /\ procs' = [procs EXCEPT ![r] = RaiseIn(@, "StorageError")]
              /\ table' = ClosedUncommitted(table, seen)
           \/ \* "ON CONFLICT DO UPDATE command cannot affect row a second time"
              /\ ConflictKey(new) \in keys
              /\ procs' = [procs EXCEPT ![r] = RaiseIn(@, "CardinalityViolation")]
              /\ table' = ClosedUncommitted(table, seen)
           \/ /\ ConflictKey(new) \notin keys
              /\ ~LockedByOther(r, ConflictKey(new))
              /\ procs' = [procs EXCEPT ![r] =
                             [@ EXCEPT !.pc = IF c.i = Len(procs[r].records)
                                              THEN "Commit" ELSE "Execute",
                                       !.conn = [c EXCEPT !.rows = rows,
                                                          !.stmt = keys \cup {ConflictKey(new)},
                                                          !.i = c.i + 1]]]
              /\ table' = Uncommitted(table, Publish(table, rows))
    /\ UNCHANGED <<files, exists, concFrame>>

\* each of the two statements waits for a row the other transaction has
\* written: the server ends one of them with "deadlock detected"
DeadlockOf(r) ==
    /\ Waiting(r)
    /\ \E q \in Runs \ {r} :
          /\ Waiting(q)
          /\ NextKey(procs[r]) \in HeldKeys(procs[q].conn)
          /\ NextKey(procs[q]) \in HeldKeys(procs[r].conn)
    /\ procs' = [procs EXCEPT ![r] = RaiseIn(@, "DeadlockDetected")]
    /\ table' = ClosedUncommitted(table, Publish(table, procs[r].conn.rows))
    /\ UNCHANGED <<files, exists, concFrame>>

\* lines 246-249: conn.commit(), then conn.close() in the finally block
CommitOf(r) ==
    /\ procs[r].pc = "Commit"
    /\ \/ /\ procs' = [procs EXCEPT ![r] = RaiseIn(@, "StorageError")]
          /\ table' = ClosedUncommitted(table, Publish(table, procs[r].conn.rows))
       \/ /\ procs' = [procs EXCEPT ![r] =
                         [@ EXCEPT !.pc = "Cleanup",
                                   !.conn = [NoConn EXCEPT !.committed = TRUE]]]
          /\ table' = Publish(table, procs[r].conn.rows)
    /\ UNCHANGED <<files, exists, concFrame>>

\* lines 276-280: os.remove(tmp_path), then main() returns or re-raises
CleanupOf(r) ==
    /\ procs[r].pc = "Cleanup"
    /\ files' = files \ {procs[r].tmp_path}
    /\ procs' = [procs EXCEPT ![r] =
                   [@ EXCEPT !.pc = IF procs[r].reason = "" THEN "Done" ELSE "Failed"]]
    /\ UNCHANGED <<exists, table, concFrame>>

InitConc ==
    /\ sel = SelIdle
    /\ nrm = NrmIdle
    /\ procs = [r \in Runs |-> ProcIdle]
    /\ pc = "Resolving"
    /\ reason = ""
    /\ tmp_path = 0
    /\ created = 0
    /\ files = {}
    /\ sheet_name = <<>>
    /\ records = <<>>
    /\ conn = NoConn
    /\ prev = [pc |-> "None", reason |-> "", records |-> <<>>]
    /\ start \in ConcStores
    /\ exists = start.exists
    /\ table = start.table

NextConc ==
    \/ \E r \in Runs : StartOf(r)
    \/ \E r \in Runs : NormalizeOf(r)
    \/ \E r \in Runs : ReconcileOf(r)
    \/ \E r \in Runs : EnsureTableOf(r)
    \/ \E r \in Runs : ExecuteOf(r)
    \/ \E r \in Runs : DeadlockOf(r)
    \/ \E r \in Runs : CommitOf(r)
    \/ \E r \in Runs : CleanupOf(r)

SpecConc == InitConc /\ [][NextConc]_vars

-----------------------------------------------------------------------------
(* Properties *)

\* the identity of a stored row
Identity(row) == <<row.ods_code, row.treatment_code, row.period_date>>

Measures(row) == <<row.median_weeks, row.pct_over_18w, row.pct_over_52w>>

\* the identities a record sequence carries, as the table stores them
IdentitiesOf(recs) == {Identity(RowOf(recs[i])) : i \in 1..Len(recs)}

\* the record that speaks last for its identity in recs
IsLastFor(recs, i) ==
    \A j \in (i + 1)..Len(recs) : Identity(RowOf(recs[j])) # Identity(RowOf(recs[i]))

RunEnded == pc \in {"Done", "Failed"}

\* upsert_wait_metrics was called and was not cut short by a storage fault:
\* it returned, or the server refused the statement for what the records are
Upserted(p, why) == p = "Done" \/ (p = "Failed" /\ why = "CardinalityViolation")

\* upsert_wait_metrics was called in the current run, which has ended
UpsertCalled ==
    /\ RunEnded
    /\ reason \in {"", "StorageError", "CardinalityViolation"}

\* C1: when upsert_wait_metrics has run on a record set, running it again on
\* the identical record set leaves the table, its rows and their content as
\* they were after the first of the two runs.
C1_Idempotent ==
    (/\ UpsertCalled
     /\ Upserted(prev.pc, prev.reason)
     /\ records = prev.records)
    => (table = start.table /\ exists = start.exists)

C1_Witness ==
    /\ pc = "Done"
    /\ conn.committed
    /\ prev.pc = "Done"
    /\ Len(records) = 2
    /\ records = prev.records
    /\ table # {}

\* C2: no identity ever has two rows in the table; and when two successive
\* runs carry the same identity with different measurement values, the one
\* row of that identity holds the values of the second run once that run has
\* committed.
C2_LastWriteWins ==
    /\ \A r1, r2 \in table : Identity(r1) = Identity(r2) => r1 = r2
    /\ (pc \in {"Cleanup", "Done"} /\ conn.committed) =>
          \A i \in 1..Len(prev.records), j \in 1..Len(records) :
             (/\ Identity(RowOf(prev.records[i])) = Identity(RowOf(records[j]))
              /\ Measures(RowOf(prev.records[i])) # Measures(RowOf(records[j]))
              /\ IsLastFor(records, j))
             => /\ Cardinality({r \in table : Identity(r) = Identity(RowOf(records[j]))}) = 1
                /\ \A r \in table :
                      Identity(r) = Identity(RowOf(records[j]))
                      => Measures(r) = Measures(RowOf(records[j]))

C2_Witness ==
    /\ pc = "Done"
    /\ conn.committed
    /\ prev.pc = "Done"
    /\ prev.records # <<>>
    /\ \E i \in 1..Len(prev.records), j \in 1..Len(records) :
          /\ Identity(RowOf(prev.records[i])) = Identity(RowOf(records[j]))
          /\ Measures(RowOf(prev.records[i])) # Measures(RowOf(records[j]))
          /\ RowOf(prev.records[i]) \in start.table
          /\ RowOf(records[j]) \in table

\* every record of the run that speaks last for its identity is in the table
AllVisible ==
    \A i \in 1..Len(records) : IsLastFor(records, i) => RowOf(records[i]) \in table

\* C3: what another connection sees is, at every moment of a run and after
\* it, either the table as the run found it or the table with all the
\* records of the run; after a failure it is the table as the run found it.
C3_AtomicRun ==
    /\ table = start.table \/ (conn.committed /\ AllVisible)
    /\ reason # "" => table = start.table

\* the transaction has written a part of the run's records, and nobody sees it
C3_Witness ==
    /\ pc = "Execute"
    /\ conn.i = 2
    /\ Len(records) = 2
    /\ conn.rows # table
    /\ start.table # {}

\* C4: when a run has ended, the temporary file it created is gone.
C4_TempFileRemoved == RunEnded => created \notin files

\* C5 as claimed: a run that ends in Done has committed.
C5_DoneOnlyAfterCommit == pc = "Done" => conn.committed

\* C5: a run that ends in Done has committed, unless it had no record to
\* store and so never opened a connection.
C5_DoneAfterCommitOrEmpty == pc = "Done" => (conn.committed \/ records = <<>>)

C5_Witness == pc = "Done" /\ conn.committed /\ records # <<>>

\* C6: upsert_wait_metrics called with no record returns without an error and
\* leaves the storage alone: no row changes, no table is created, no
\* connection is opened.
C6_EmptyInputNoChange ==
    [][(pc = "Reconciling" /\ records = <<>>)
        => (/\ pc' = "Cleanup"
            /\ reason' = ""
            /\ table' = table
            /\ exists' = exists
            /\ conn' = NoConn)]_vars

C6_Witness ==
    /\ pc = "Cleanup"
    /\ reason = ""
    /\ records = <<>>
    /\ sheet_name = <<>>
    /\ tmp_path # 0
    /\ table # {}

\* C7: against the table as the run found it, no row is gone, a row whose
\* identity the run's records do not carry is unchanged, and a row that is
\* new or changed has an identity they carry.
C7_Frame ==
    /\ \A old \in start.table :
          \E new \in table :
             /\ Identity(new) = Identity(old)
             /\ Identity(old) \notin IdentitiesOf(records) => new = old
    /\ \A new \in table :
          new \notin start.table => Identity(new) \in IdentitiesOf(records)

\* the run changed one stored row and left another, which it did not carry
C7_Witness ==
    /\ pc = "Done"
    /\ conn.committed
    /\ \E old \in start.table : Identity(old) \notin IdentitiesOf(records) /\ old \in table
    /\ \E old \in start.table : Identity(old) \in IdentitiesOf(records) /\ old \notin table

-----------------------------------------------------------------------------
(* Properties of sheet selection and of normalisation *)

\* name contains "provider", whatever the case of its letters
ContainsProvider(name) ==
    \E i \in 1..Len(name) :
       /\ i + Len(ProviderPattern) - 1 <= Len(name)
       /\ \A j \in 1..Len(ProviderPattern) :
             LowerChar(name[i + j - 1]) = ProviderPattern[j]

\* an explicit name is given (WLMDS_SHEET set to an empty text counts as not set)
ExplicitGiven(explicit) == explicit.some /\ explicit.s # <<>>

\* C8: the explicit name when given and present; an error that lists the
\* available names when given and absent; otherwise the first name in file
\* order that contains "provider" in any case, or the first worksheet when no
\* name does.
C8_SheetSelection ==
    sel.done =>
       LET names == sel.names
           explicit == sel.explicit
           out == sel.out
           present == \E i \in 1..Len(names) : names[i] = explicit.s
           hits == {i \in 1..Len(names) : ContainsProvider(names[i])}
       IN  /\ (ExplicitGiven(explicit) /\ present) => (out.ok /\ out.name = explicit.s)
           /\ (ExplicitGiven(explicit) /\ ~present) =>
                 (~out.ok /\ out.explicit = explicit.s /\ out.available = names)
           /\ (~ExplicitGiven(explicit) /\ hits # {}) =>
                 (out.ok /\ \E i \in hits : out.name = names[i] /\ \A j \in hits : i <= j)
           /\ (~ExplicitGiven(explicit) /\ hits = {}) => (out.ok /\ out.name = names[1])
           /\ (~ExplicitGiven(explicit)
               /\ names = <<NameSummary, NameProviderBreakdown, NameNotes>>) =>
                 out.name = NameProviderBreakdown

C8_Witness ==
    /\ sel.done
    /\ sel.explicit = NoneStr
    /\ sel.names = <<NameSummary, NameProviderBreakdown, NameNotes>>
    /\ sel.out.ok
    /\ sel.out.name = NameProviderBreakdown

\* the headers as header resolution compares them
NormalHeaders(sheet) == {Lower(Strip(sheet.columns[j])) : j \in 1..Len(sheet.columns)}

\* the logical fields none of whose aliases is among the headers
Unresolved(sheet) ==
    {f \in 1..Len(FieldAliases) :
        \A a \in 1..Len(FieldAliases[f]) : FieldAliases[f][a] \notin NormalHeaders(sheet)}

\* C9: when some logical field has none of its aliases among the normalised
\* headers, normalisation fails with no record; the error carries the alias
\* list that was tried, which is the list of an unresolved field (the first
\* one in the order of resolution) and of no other field.
C9_SchemaError ==
    (nrm.done /\ Unresolved(nrm.sheet) # {}) =>
       /\ ~nrm.out.ok
       /\ nrm.out.records = <<>>
       /\ \E f \in Unresolved(nrm.sheet) :
             /\ \A g \in Unresolved(nrm.sheet) : f <= g
             /\ nrm.out.err.tried = FieldAliases[f]
             /\ \A g \in 1..Len(FieldAliases) : g # f => FieldAliases[g] # nrm.out.err.tried

C9_Witness ==
    /\ nrm.done
    /\ ~nrm.out.ok
    /\ nrm.out.err.tried = median_aliases
    /\ Cardinality(Unresolved(nrm.sheet)) = 2

\* a cell that is empty, or text of spaces only
BlankCell(c) == c.t = "nan" \/ (c.t = "str" /\ Strip(c.s) = <<>>)

\* C10: no record comes from a row whose provider code cell (column 1) or
\* treatment code cell (column 2) is blank.
C10_BlankIdentityDropped ==
    (nrm.done /\ nrm.out.ok) =>
       \A k \in 1..Len(nrm.out.records) :
          LET row == nrm.sheet.rows[nrm.out.src[k]]
          IN  ~BlankCell(row[1]) /\ ~BlankCell(row[2])

\* the text of a cell no missing-value text and not blank: an identity field
\* the loop keeps
ValidIdentity(c) == c.t = "str" /\ c.s \notin NaStrings /\ Strip(c.s) # <<>>

\* a period cell that is no date-time: empty, or text that is no date
UnreadablePeriod(c) == c.t \in {"nan", "str"}

\* a measurement cell whose text is no number
UnreadableNumber(c) == c.t = "str" /\ ~IsDigit(Strip(c.s))

\* the longest run of digits a text starts with
RECURSIVE LeadingDigits(_)
LeadingDigits(s) ==
    IF s = <<>> \/ ~IsDigitChar(Head(s)) THEN <<>>
    ELSE <<Head(s)>> \o LeadingDigits(Tail(s))

\* what follows the leading digits of the trimmed text
AfterDigits(s) ==
    LET t == Strip(s)
    IN  SubSeq(t, Len(LeadingDigits(t)) + 1, Len(t))

\* "<digits> - <description>": digits, then " - ", then a description
SpacedCodeForm(s) ==
    /\ LeadingDigits(Strip(s)) # <<>>
    /\ Len(AfterDigits(s)) > 3
    /\ SubSeq(AfterDigits(s), 1, 3) = <<" ", "-", " ">>

\* digits, then a hyphen after any spaces, then anything
HyphenCodeForm(s) ==
    /\ LeadingDigits(Strip(s)) # <<>>
    /\ LStrip(AfterDigits(s)) # <<>>
    /\ Head(LStrip(AfterDigits(s))) = "-"

\* the records made from sheet row r
RecordsOf(r) == {k \in 1..Len(nrm.out.records) : nrm.out.src[k] = r}

\* the measurement a cell holds when it is a whole number
NumberOf(c) == IF c.t = "int" THEN Num(c.n) ELSE NaN

\* C11: when every logical field resolves, normalisation returns normally; a
\* row whose period cell is unreadable gives no record; a row with valid
\* provider and treatment texts and a date-time period gives exactly one
\* record, in which every measurement whose cell is unreadable is NaN, and the
\* provider code, the treatment code, the period and the measurements of the
\* readable cells are those of the row.
C11_RowAnomalies ==
    (nrm.done /\ Unresolved(nrm.sheet) = {}) =>
       /\ nrm.out.ok
       /\ \A r \in 1..Len(nrm.sheet.rows) :
             LET row == nrm.sheet.rows[r]
             IN  /\ UnreadablePeriod(row[3]) => RecordsOf(r) = {}
                 /\ (ValidIdentity(row[1]) /\ ValidIdentity(row[2]) /\ row[3].t = "dt") =>
                       /\ Cardinality(RecordsOf(r)) = 1
                       /\ \A k \in RecordsOf(r) :
                             LET rec == nrm.out.records[k]
                             IN  /\ rec.ods_code = Strip(row[1].s)
                                 /\ rec.treatment_code =
                                       IF HyphenCodeForm(row[2].s)
                                       THEN LeadingDigits(Strip(row[2].s))
                                       ELSE Strip(row[2].s)
                                 /\ rec.period_date = Datetime(row[3].n, row[3].tod)
                                 /\ rec.median_weeks = NumberOf(row[4])
                                 /\ rec.pct_over_18w = NumberOf(row[5])
                                 /\ rec.pct_over_52w = NumberOf(row[6])
                                 /\ UnreadableNumber(row[4]) => rec.median_weeks = NaN
                                 /\ UnreadableNumber(row[5]) => rec.pct_over_18w = NaN
                                 /\ UnreadableNumber(row[6]) => rec.pct_over_52w = NaN

\* a sheet of two rows, the first with an unreadable period and the second
\* with an unreadable median, parsed into the one record of the second row
C11_Witness ==
    /\ nrm.done
    /\ nrm.out.ok
    /\ Len(nrm.sheet.rows) = 2
    /\ UnreadablePeriod(nrm.sheet.rows[1][3])
    /\ ValidIdentity(nrm.sheet.rows[2][1])
    /\ UnreadableNumber(nrm.sheet.rows[2][4])
    /\ nrm.out.src = <<2>>
    /\ nrm.out.records[1].median_weeks = NaN
    /\ nrm.out.records[1].pct_over_18w = Num(1)

\* str(row[tfn_col]) for sheet row r: the raw treatment field as the loop reads it
RawTreatment(r) ==
    LET df == read_excel(nrm.sheet)
    IN  StrOfCell(df.rows[r][2], ColIsFloat(df, 2))

\* C12 as stated: the treatment code of every record is the leading digit run
\* when the raw value reads "<digits> - <description>", with the spaces around
\* the hyphen, and the trimmed raw value otherwise.
C12_SpacedCodeExtracted ==
    (nrm.done /\ nrm.out.ok) =>
       \A k \in 1..Len(nrm.out.records) :
          LET raw == RawTreatment(nrm.out.src[k])
          IN  nrm.out.records[k].treatment_code =
                 IF SpacedCodeForm(raw) THEN LeadingDigits(Strip(raw)) ELSE Strip(raw)

\* C12: the treatment code of every record is the leading digit run when the
\* trimmed raw value is a run of digits followed, after any spaces, by a
\* hyphen, and the trimmed raw value otherwise.
C12_HyphenCodeExtracted ==
    (nrm.done /\ nrm.out.ok) =>
       \A k \in 1..Len(nrm.out.records) :
          LET raw == RawTreatment(nrm.out.src[k])
          IN  nrm.out.records[k].treatment_code =
                 IF HyphenCodeForm(raw) THEN LeadingDigits(Strip(raw)) ELSE Strip(raw)

\* "101 - General Surgery" gave "101" and "ENT" gave "ENT"
C12_Witness ==
    /\ nrm.done
    /\ nrm.out.ok
    /\ Len(nrm.out.records) = 2
    /\ RawTreatment(nrm.out.src[1]) = TextGeneralSurgery
    /\ nrm.out.records[1].treatment_code = <<"1","0","1">>
    /\ RawTreatment(nrm.out.src[2]) = TextENT
    /\ nrm.out.records[2].treatment_code = TextENT

\* the table after a run with these records, executed alone, has committed
RECURSIVE AfterRun(_, _)
AfterRun(rows, recs) ==
    IF recs = <<>> THEN rows
    ELSE AfterRun(UpsertRow(rows, RowOf(Head(recs))), Tail(recs))

\* the table after the runs of an order, executed one after the other
RECURSIVE AfterRuns(_, _)
AfterRuns(rows, order) ==
    IF order = <<>> THEN rows
    ELSE AfterRuns(AfterRun(rows, procs[Head(order)].records), Tail(order))

\* the runs that have committed
Committed == {r \in Runs : procs[r].conn.committed}

\* the orders in which the runs that have committed can be lined up
CommitOrders ==
    {o \in SeqsUpTo(Committed, Cardinality(Committed)) :
        Len(o) = Cardinality(Committed) /\ Distinct(o)}

\* the run has its temporary workbook: from download_to_temp to os.remove
HoldsFile(r) ==
    procs[r].pc \in {"Normalizing", "Reconciling", "EnsureTable", "Execute", "Commit", "Cleanup"}

\* every row of the table with an identity of these carries the run's values
CarriesValuesOf(r, ids) ==
    \A row \in table : Identity(row) \in ids =>
       \E k \in 1..Len(procs[r].records) :
          IsLastFor(procs[r].records, k) /\ row = RowOf(procs[r].records[k])

\* C13: two runs side by side never have the same temporary file, and the
\* file of a run exists until that run removes it; in every state, and so
\* when both runs have ended, the table is the one left by the runs that
\* have committed executed one after the other in some order, whatever a
\* connection has written without committing; and when both committed the
\* same identities, the rows of these identities all carry the values of
\* one of the runs.
C13_Serial ==
    /\ \A r \in Runs : HoldsFile(r) =>
          /\ procs[r].tmp_path \in files
          /\ \A q \in Runs \ {r} : HoldsFile(q) => procs[q].tmp_path # procs[r].tmp_path
    /\ \E o \in CommitOrders : table = AfterRuns(start.table, o)
    /\ (Committed = Runs
          /\ \A r, q \in Runs : IdentitiesOf(procs[r].records) = IdentitiesOf(procs[q].records)) =>
          \E r \in Runs : CarriesValuesOf(r, IdentitiesOf(procs[r].records))

\* both runs ended in Done after committing the same two identities, sent in
\* opposite orders and with different values; the table carries the values
\* of the first run
C13_Witness ==
    /\ \A r \in Runs : procs[r].pc = "Done" /\ procs[r].conn.committed
    /\ Len(procs["first"].records) = 2
    /\ Len(procs["second"].records) = 2
    /\ Identity(RowOf(procs["first"].records[1])) = Identity(RowOf(procs["second"].records[2]))
    /\ Identity(RowOf(procs["first"].records[2])) = Identity(RowOf(procs["second"].records[1]))
    /\ Identity(RowOf(procs["first"].records[1])) # Identity(RowOf(procs["first"].records[2]))
    /\ procs["first"].records[1].median_weeks # procs["second"].records[2].median_weeks
    /\ CarriesValuesOf("first", IdentitiesOf(procs["first"].records))
    /\ files = {}

====
